---- MODULE Spec2Model ----
(***************************************************************************)
(* Model of HundredPrisoners.py: do_simulation, one trial of the prisoner  *)
(* protocol.  The arguments N and K are chosen in Init; the daily draw     *)
(* np.random.randint(N) is a nondeterministic choice among the N agents.   *)
(***************************************************************************)
EXTENDS Integers, FiniteSets, Sequences, TLC

VARIABLES
    N,               \* argument N: number of prisoners
    K,               \* argument K: rotation time to the next "prisoner x"
    seen,            \* seen[i][j] in {0, 1}, N x N
    visited_warden,  \* visited_warden[i] in {0, 1}
    d,               \* number of days elapsed
    light_on,        \* the light
    pc,              \* position in do_simulation
    result,          \* the returned dictionary, or NoResult
    cur_x,           \* x: the observer of the day last simulated, -1 before it
    light_visit,     \* light_on after lines 51-54 of the day last simulated
    seed,            \* argument seed: << >> for None, <<s>> for the integer s
    rng,             \* np.random's generator: << >> when its state is not
                     \* known, <<n>> after n draws since np.random.seed(seed)
    stream,          \* the draws the generator seeded with seed produces,
                     \* as far as they have been made
    draws,           \* the agents drawn in this call, in order
    call,            \* 1 in the first call of do_simulation, 2 in the second
    first,           \* the outcome of the first call, or NoResult
    NTrials,         \* vary_parameters: argument NTrials
    Ks,              \* vary_parameters: argument Ks
    sweep_i,         \* vary_parameters: i, the index of K in Ks
    sweep_t,         \* vary_parameters: t, the index of the trial
    trials,          \* vary_parameters: trials[t][i], in days (res['d'])
    saves,           \* the tables written to res.mat, in order
    vp               \* position in vary_parameters, "none" outside a sweep

runvars == <<seed, rng, stream, draws, call, first>>

sweepvars == <<NTrials, Ks, sweep_i, sweep_t, trials, saves, vp>>

vars == <<N, K, seen, visited_warden, d, light_on, pc, result, cur_x, light_visit, runvars, sweepvars>>

\* Bounds of the model: the arguments tried and the days simulated.
MaxN == 4
MaxK == 3
MaxDays == 12
\* Bounds of the arguments tried where the loop may run for ever (FairSpec).
MaxFairN == 3
MaxFairK == 2

NoResult == [d |-> -1]

\* range(N)
Agents == 0 .. (N - 1)

\* a variant of Eye: np.zeros((n, n)), the diagonal not set
EyeZeros(n) == [i \in 0 .. (n - 1) |-> [j \in 0 .. (n - 1) |-> 0]]

\* np.eye(n): 1 on the diagonal, 0 elsewhere
Eye(n) == [i \in 0 .. (n - 1) |-> [j \in 0 .. (n - 1) |-> IF i = j THEN 1 ELSE 0]]

\* np.zeros(n)
Zeros(n) == [i \in 0 .. (n - 1) |-> 0]

\* np.sum(seen, 1)[i]: the entries of row i are 0 or 1
RowSumOf(m, i) == Cardinality({j \in DOMAIN m[i] : m[i][j] = 1})
RowSum(i) == RowSumOf(seen, i)

\* a variant of TotalOf: the diagonal is not counted
TotalOffDiagonal(m) ==
    Cardinality({p \in (DOMAIN m) \X (DOMAIN m) : p[1] # p[2] /\ m[p[1]][p[2]] = 1})

\* np.sum(seen)
TotalOf(m) == Cardinality({p \in (DOMAIN m) \X (DOMAIN m) : m[p[1]][p[2]] = 1})

\* np.sum(visited_warden)
VisitedSum == Cardinality({i \in Agents : visited_warden[i] = 1})

\* np.max(np.sum(seen, 1)), defined for N >= 1
MaxRowSum == CHOOSE s \in {RowSum(i) : i \in Agents} :
                 \A i \in Agents : RowSum(i) <= s

\* a variant of StopCond: a row is complete, diagonal included
StopCondSeenAll == MaxRowSum = N

\* the negation of the while condition: np.max(np.sum(seen, 1)) == (N-1)
StopCond == MaxRowSum = N - 1

\* a variant of Observer: the observer advances every day
ObserverEveryDay(day) == day % N

\* x = int(np.mod(np.floor(d/K), N)), for K >= 1 and N >= 1
Observer(day) == (day \div K) % N

\* a variant of SeenAfter: seen[with_warden, x] = light_on in the elif branch
SeenAfterAssign(with_warden) ==
    LET x == Observer(d) IN
    IF with_warden = x THEN seen
    ELSE [seen EXCEPT ![with_warden][x] = IF light_on THEN 1 ELSE 0]

\* a variant of SeenAfter: the observer records the agent drawn as well
SeenAfterSymmetric(with_warden) ==
    LET x == Observer(d) IN
    IF with_warden = x THEN seen
    ELSE IF light_on THEN [seen EXCEPT ![with_warden][x] = 1, ![x][with_warden] = 1]
    ELSE seen

\* lines 51-54: seen after the day on which with_warden is drawn
SeenAfter(with_warden) ==
    LET x == Observer(d) IN
    IF with_warden = x THEN seen
    ELSE IF light_on THEN [seen EXCEPT ![with_warden][x] = 1]
    ELSE seen

\* a variant of LightAfter: the reset on the first day of a window
LightAfterResetFirst(with_warden) ==
    IF d % K = 0 THEN FALSE
    ELSE IF with_warden = Observer(d) THEN TRUE
    ELSE light_on

\* a variant of LightAfter: the reset on every day
LightAfterResetAlways(with_warden) ==
    IF d % K <= K - 1 THEN FALSE
    ELSE IF with_warden = Observer(d) THEN TRUE
    ELSE light_on

\* lines 51-52: light_on after the visit of with_warden, before the reset
LightAfterVisit(with_warden) ==
    IF with_warden = Observer(d) THEN TRUE
    ELSE light_on

\* a variant of LightAfter: the reset tested before the observer's visit
LightAfterResetBefore(with_warden) ==
    IF with_warden = Observer(d) THEN TRUE
    ELSE IF d % K = K - 1 THEN FALSE
    ELSE light_on

\* lines 51-52 and 55-56: light_on after the day on which with_warden is drawn
LightAfter(with_warden) ==
    IF d % K = K - 1 THEN FALSE
    ELSE IF with_warden = Observer(d) THEN TRUE
    ELSE light_on

\* the call: the arguments are given, nothing of the trial exists yet
Called(maxN, maxK) ==
    /\ N \in 0 .. maxN
    /\ K \in 0 .. maxK
    /\ seen = << >>
    /\ visited_warden = << >>
    /\ d = 0
    /\ light_on = FALSE
    /\ pc = "start"
    /\ result = NoResult
    /\ cur_x = -1
    /\ light_visit = FALSE

\* a single call with the default seed=None: the generator is not seeded
OneCall ==
    /\ seed = << >>
    /\ rng = << >>
    /\ stream = << >>
    /\ draws = << >>
    /\ call = 1
    /\ first = NoResult

\* do_simulation called directly, not from vary_parameters
NoSweep ==
    /\ NTrials = 0
    /\ Ks = << >>
    /\ sweep_i = 0
    /\ sweep_t = 0
    /\ trials = << >>
    /\ saves = << >>
    /\ vp = "none"

Init == Called(MaxN, MaxK) /\ OneCall /\ NoSweep

\* if seed: a seed of None or 0 does not seed the generator
Truthy(sd) == sd # << >> /\ sd[1] # 0

\* lines 31-40: the generator is seeded, the state of a trial is allocated
Allocate ==
    /\ pc = "start"
    /\ rng' = IF Truthy(seed) THEN <<0>> ELSE rng
    /\ seen' = Eye(N)
    /\ visited_warden' = Zeros(N)
    /\ d' = 0
    /\ light_on' = FALSE
    /\ pc' = "loop"
    /\ UNCHANGED <<N, K, result, cur_x, light_visit, seed, stream, draws, call, first, sweepvars>>

\* line 41 with N = 0: np.max of an empty array raises ValueError
EmptyMax ==
    /\ pc = "loop"
    /\ N = 0
    /\ pc' = "ValueError"
    /\ UNCHANGED <<N, K, seen, visited_warden, d, light_on, result, cur_x, light_visit, runvars, sweepvars>>

\* line 42 with K = 0: d%K raises ZeroDivisionError
DivZero ==
    /\ pc = "loop"
    /\ N >= 1
    /\ ~StopCond
    /\ K = 0
    /\ pc' = "ZeroDivisionError"
    /\ UNCHANGED <<N, K, seen, visited_warden, d, light_on, result, cur_x, light_visit, runvars, sweepvars>>

\* lines 41-56: one pass of the loop body, all but d += 1
DayBody(with_warden) ==
    /\ pc = "loop"
    /\ N >= 1
    /\ ~StopCond
    /\ K >= 1
    /\ visited_warden' = [visited_warden EXCEPT ![with_warden] = 1]
    /\ seen' = SeenAfter(with_warden)
    /\ light_on' = LightAfter(with_warden)
    /\ cur_x' = Observer(d)
    /\ light_visit' = LightAfterVisit(with_warden)
    /\ UNCHANGED <<N, K, pc, result, seed, call, first, sweepvars>>

\* lines 41-57: one day, d counted exactly
Day ==
    \E with_warden \in Agents :
        /\ d < MaxDays
        /\ DayBody(with_warden)
        /\ d' = d + 1
        /\ UNCHANGED <<rng, stream, draws>>

\* lines 41-57: one day, d kept modulo K*N, which is all that lines 48 and
\* 55 read of it; the loop can then run for ever in a finite state space
DayMod(with_warden) ==
    /\ DayBody(with_warden)
    /\ d' = (d + 1) % (K * N)
    /\ UNCHANGED <<rng, stream, draws>>

DayCycle == \E with_warden \in Agents : DayMod(with_warden)

\* lines 58-64: the assertion holds, the dictionary is returned
Return ==
    /\ pc = "loop"
    /\ N >= 1
    /\ StopCond
    /\ VisitedSum = N
    /\ pc' = "done"
    /\ result' = [d |-> d, coverage |-> <<100 * TotalOf(seen), N * N>>, seen |-> seen]
    /\ UNCHANGED <<N, K, seen, visited_warden, d, light_on, cur_x, light_visit, runvars, sweepvars>>

\* line 58: the assertion fails
AssertFail ==
    /\ pc = "loop"
    /\ N >= 1
    /\ StopCond
    /\ VisitedSum # N
    /\ pc' = "AssertionError"
    /\ UNCHANGED <<N, K, seen, visited_warden, d, light_on, result, cur_x, light_visit, runvars, sweepvars>>

Next == Allocate \/ EmptyMax \/ DivZero \/ Day \/ Return \/ AssertFail

Spec == Init /\ [][Next]_vars

NextCycle == Allocate \/ EmptyMax \/ DivZero \/ DayCycle \/ Return \/ AssertFail

\* the observer x is drawn while the light is off and the light stays on
\* for the next day (lines 51-52, not on the last day of the window)
TurnsLightOn(x) == DayMod(x) /\ x \in Agents /\ ~light_on /\ light_on'

\* the agent drawn reads the light and records the observer (lines 53-54)
Learns == \E with_warden \in Agents : DayMod(with_warden) /\ seen' # seen

\* The draws are independent and uniform, so a draw that is possible again
\* and again is made again and again: the observer of each window turns the
\* light on before the window's last day, and an agent who has something to
\* learn from the light is drawn while it is on.
FairDraws ==
    /\ \A x \in 0 .. MaxFairN - 1 : SF_vars(TurnsLightOn(x))
    /\ SF_vars(Learns)

InitFair == Called(MaxFairN, MaxFairK) /\ OneCall /\ NoSweep

\* The program never stops between two steps, and the draws are fair.
FairSpec == InitFair /\ [][NextCycle]_vars /\ WF_vars(NextCycle) /\ FairDraws

\* ---------------------------------------------------------------------
\* Two calls of do_simulation with the same arguments, the draws recorded

\* Bounds of the arguments and days tried with the draws recorded (RunsSpec).
MaxRunN == 3
MaxRunK == 3
MaxRunDays == 5
MaxSeed == 1

\* seed=None, or an integer seed
Seeds == {<< >>} \cup {<<sd>> : sd \in 0 .. MaxSeed}

InitRuns ==
    /\ Called(MaxRunN, MaxRunK)
    /\ seed \in Seeds
    /\ rng = << >>
    /\ stream = << >>
    /\ draws = << >>
    /\ call = 1
    /\ first = NoResult
    /\ NoSweep

\* line 49: np.random.randint(N) returns with_warden.  A generator seeded
\* with seed produces one fixed sequence: its n-th draw is the same in every
\* call that seeds it; a generator that was not seeded may produce anything.
Drawn(with_warden) ==
    /\ (rng # << >> /\ rng[1] < Len(stream)) => with_warden = stream[rng[1] + 1]
    /\ rng' = IF rng = << >> THEN rng ELSE <<rng[1] + 1>>
    /\ stream' = IF rng # << >> /\ rng[1] >= Len(stream)
                 THEN Append(stream, with_warden)
                 ELSE stream
    /\ draws' = Append(draws, with_warden)

\* lines 41-57: one day, the draw taken from the generator and recorded
DaySeeded ==
    \E with_warden \in Agents :
        /\ d < MaxRunDays
        /\ DayBody(with_warden)
        /\ d' = d + 1
        /\ Drawn(with_warden)

\* what a call leaves: how it ended, the returned values, the draws made
Outcome == [pc |-> pc, d |-> d, seen |-> seen, result |-> result, draws |-> draws]

\* do_simulation is called again with the same seed, N and K
SecondCall ==
    /\ pc \in {"done", "AssertionError"}
    /\ call = 1
    /\ first' = Outcome
    /\ call' = 2
    /\ pc' = "start"
    /\ seen' = << >>
    /\ visited_warden' = << >>
    /\ d' = 0
    /\ light_on' = FALSE
    /\ result' = NoResult
    /\ cur_x' = -1
    /\ light_visit' = FALSE
    /\ draws' = << >>
    /\ UNCHANGED <<N, K, seed, rng, stream, sweepvars>>

NextRuns ==
    Allocate \/ EmptyMax \/ DivZero \/ DaySeeded \/ Return \/ AssertFail \/ SecondCall

RunsSpec == InitRuns /\ [][NextRuns]_vars

\* one call, the draws recorded
NextLog == Allocate \/ EmptyMax \/ DivZero \/ DaySeeded \/ Return \/ AssertFail

LogSpec == InitRuns /\ [][NextLog]_vars

\* ---------------------------------------------------------------------
\* vary_parameters: NTrials trials for each K of Ks

\* Bounds of the sweeps tried (SweepSpec): the trials per K, the length of
\* Ks, the days of one trial.
MaxTrials == 2
MaxKs == 2
MaxSweepDays == 4

\* vary_parameters calls do_simulation(K=K) with the default N=100 (line 6)
\* and by default Ks = 50, 100, ..., 900 (line 66): populations and rotation
\* times of that size cannot be enumerated, the sweeps tried use small ones.
MaxSweepN == 3
MaxSweepK == 2
NsTried == 2 .. MaxSweepN
KsTried == 1 .. MaxSweepK

\* the sequences over S of length at most n
SeqsUpTo(S, n) == UNION {[1 .. k -> S] : k \in 0 .. n}

\* np.zeros((NTrials, len(Ks))): a cell holds <<days, 365>> for days/365.0
ZeroTable(rows, cols) ==
    [tt \in 0 .. rows - 1 |-> [ii \in 0 .. cols - 1 |-> <<0, 365>>]]

\* no call of do_simulation is in progress
NoTrial ==
    /\ seen = << >>
    /\ visited_warden = << >>
    /\ d = 0
    /\ light_on = FALSE
    /\ pc = "idle"
    /\ result = NoResult
    /\ cur_x = -1
    /\ light_visit = FALSE

InitSweep ==
    /\ N \in NsTried
    /\ K = 0
    /\ NoTrial
    /\ OneCall
    /\ NTrials \in 0 .. MaxTrials
    /\ Ks \in SeqsUpTo(KsTried, MaxKs)
    /\ sweep_i = 0
    /\ sweep_t = 0
    /\ trials = << >>
    /\ saves = << >>
    /\ vp = "entry"

\* lines 76-77: the table of results
SweepStart ==
    /\ vp = "entry"
    /\ trials' = ZeroTable(NTrials, Len(Ks))
    /\ vp' = "loop"
    /\ UNCHANGED <<N, K, seen, visited_warden, d, light_on, pc, result, cur_x, light_visit,
                   runvars, NTrials, Ks, sweep_i, sweep_t, saves>>

\* lines 78-80: the next trial of the batch, do_simulation(K=K) is called
CallTrial ==
    /\ vp = "loop"
    /\ sweep_i < Len(Ks)
    /\ sweep_t < NTrials
    /\ K' = Ks[sweep_i + 1]
    /\ seen' = << >>
    /\ visited_warden' = << >>
    /\ d' = 0
    /\ light_on' = FALSE
    /\ pc' = "start"
    /\ result' = NoResult
    /\ cur_x' = -1
    /\ light_visit' = FALSE
    /\ vp' = "trial"
    /\ UNCHANGED <<N, runvars, NTrials, Ks, sweep_i, sweep_t, trials, saves>>

\* lines 41-57: one day of a trial of the sweep
DaySweep ==
    \E with_warden \in Agents :
        /\ d < MaxSweepDays
        /\ DayBody(with_warden)
        /\ d' = d + 1
        /\ UNCHANGED <<rng, stream, draws>>

\* a variant of StoreTrial: a failed trial is caught, its cell left at 0
StoreTrialCatch ==
    /\ vp = "trial"
    /\ pc \in {"done", "AssertionError"}
    /\ trials' = IF pc = "done"
                 THEN [trials EXCEPT ![sweep_t][sweep_i] = <<result.d, 365>>]
                 ELSE trials
    /\ sweep_t' = sweep_t + 1
    /\ vp' = "loop"
    /\ seen' = << >>
    /\ visited_warden' = << >>
    /\ d' = 0
    /\ light_on' = FALSE
    /\ pc' = "idle"
    /\ result' = NoResult
    /\ cur_x' = -1
    /\ light_visit' = FALSE
    /\ UNCHANGED <<N, K, runvars, NTrials, Ks, sweep_i, saves>>

\* a variant of StoreTrial: the cell of the next trial is written
StoreTrialNextRow ==
    /\ vp = "trial"
    /\ pc = "done"
    /\ trials' = [trials EXCEPT ![(sweep_t + 1) % NTrials][sweep_i] = <<result.d, 365>>]
    /\ sweep_t' = sweep_t + 1
    /\ vp' = "loop"
    /\ seen' = << >>
    /\ visited_warden' = << >>
    /\ d' = 0
    /\ light_on' = FALSE
    /\ pc' = "idle"
    /\ result' = NoResult
    /\ cur_x' = -1
    /\ light_visit' = FALSE
    /\ UNCHANGED <<N, K, runvars, NTrials, Ks, sweep_i, saves>>

\* a variant of StoreTrial: the days are divided by 365 with //
StoreTrialFloor ==
    /\ vp = "trial"
    /\ pc = "done"
    /\ trials' = [trials EXCEPT ![sweep_t][sweep_i] = <<result.d \div 365, 1>>]
    /\ sweep_t' = sweep_t + 1
    /\ vp' = "loop"
    /\ seen' = << >>
    /\ visited_warden' = << >>
    /\ d' = 0
    /\ light_on' = FALSE
    /\ pc' = "idle"
    /\ result' = NoResult
    /\ cur_x' = -1
    /\ light_visit' = FALSE
    /\ UNCHANGED <<N, K, runvars, NTrials, Ks, sweep_i, saves>>

\* lines 80-82: the trial has returned, trials[t, i] = res['d']/365.0
StoreTrial ==
    /\ vp = "trial"
    /\ pc = "done"
    /\ trials' = [trials EXCEPT ![sweep_t][sweep_i] = <<result.d, 365>>]
    /\ sweep_t' = sweep_t + 1
    /\ vp' = "loop"
    /\ seen' = << >>
    /\ visited_warden' = << >>
    /\ d' = 0
    /\ light_on' = FALSE
    /\ pc' = "idle"
    /\ result' = NoResult
    /\ cur_x' = -1
    /\ light_visit' = FALSE
    /\ UNCHANGED <<N, K, runvars, NTrials, Ks, sweep_i, saves>>

\* line 80: the AssertionError of the trial leaves vary_parameters
Abort ==
    /\ vp = "trial"
    /\ pc = "AssertionError"
    /\ vp' = "AssertionError"
    /\ UNCHANGED <<N, K, seen, visited_warden, d, light_on, pc, result, cur_x, light_visit,
                   runvars, NTrials, Ks, sweep_i, sweep_t, trials, saves>>

\* lines 83-90: the batch of K is complete, the table is written to res.mat
Save ==
    /\ vp = "loop"
    /\ sweep_i < Len(Ks)
    /\ sweep_t = NTrials
    /\ saves' = Append(saves, [Ks |-> Ks, trials |-> trials])
    /\ sweep_i' = sweep_i + 1
    /\ sweep_t' = 0
    /\ UNCHANGED <<N, K, seen, visited_warden, d, light_on, pc, result, cur_x, light_visit,
                   runvars, NTrials, Ks, trials, vp>>

\* line 78: Ks is exhausted, vary_parameters returns
SweepEnd ==
    /\ vp = "loop"
    /\ sweep_i = Len(Ks)
    /\ vp' = "finished"
    /\ UNCHANGED <<N, K, seen, visited_warden, d, light_on, pc, result, cur_x, light_visit,
                   runvars, NTrials, Ks, sweep_i, sweep_t, trials, saves>>

NextSweep ==
    \/ SweepStart \/ CallTrial \/ Allocate \/ DaySweep \/ Return \/ AssertFail
    \/ StoreTrial \/ Abort \/ Save \/ SweepEnd

SweepSpec == InitSweep /\ [][NextSweep]_vars

\* ---------------------------------------------------------------------
\* Properties of do_simulation

Ended == pc \in {"done", "AssertionError"}

\* C1: when the loop is left (the stopping condition holds), every entry of
\* visited_warden is set, so the assertion of line 58 never fails.
C1_AllVisitedAtExit ==
    (pc = "loop" /\ N >= 2 /\ K >= 1 /\ StopCond) => VisitedSum = N

\* C3: when the stopping condition fires, some agent i has seen[i][j] set
\* for every j # i.
C3_SomeAgentKnowsAll ==
    (pc = "loop" /\ N >= 2 /\ K >= 1 /\ StopCond) =>
        \E i \in Agents : \A j \in Agents \ {i} : seen[i][j] = 1

C5_InvalidConfigFailsFast ==
    (N < 2 \/ K < 1) =>
        (pc \in {"start", "ValueError", "ZeroDivisionError"} /\ d = 0)

\* C7: for N >= 2 the stopping condition does not hold at day 0, and a
\* trial that has ended has simulated at least one day.
C7_NotStoppedAtDayZero ==
    /\ (pc = "loop" /\ N >= 2 /\ K >= 1 /\ d = 0) => ~StopCond
    /\ (Ended /\ N >= 2 /\ K >= 1) => d >= 1

\* C8: at the start of the first day of every rotation window (d mod K = 0)
\* the light is off.
C8_LightOffAtWindowStart ==
    (pc = "loop" /\ K >= 1 /\ d % K = 0) => ~light_on

\* the light was on in window 0 (agent i read it) and window 1 starts
C8_Witness ==
    /\ pc = "loop"
    /\ K >= 2
    /\ d = K
    /\ ~light_on
    /\ \E i \in Agents \ {0} : seen[i][0] = 1

\* C9: seen[i][i] is set for every agent i from the allocation on.
C9_DiagonalSet ==
    pc # "start" => \A i \in Agents : seen[i][i] = 1

C9_Witness ==
    /\ pc = "loop"
    /\ d >= 2
    /\ \E i, j \in Agents : i # j /\ seen[i][j] = 1 /\ seen[i][i] = 1 /\ seen[j][j] = 1

\* C10: no day clears an entry of seen: an entry set before a day is set
\* after it.
C10_SeenMonotonic ==
    [][pc = "loop" =>
          \A i, j \in Agents : seen[i][j] = 1 => seen'[i][j] = 1]_vars

\* an entry written in an earlier window is still set when its row's agent
\* can be drawn again
C10_Witness ==
    /\ pc = "loop"
    /\ K >= 1
    /\ d >= 2 * K
    /\ \E i, j \in Agents : i # j /\ seen[i][j] = 1 /\ Observer(d) # j

\* agent w (taken modulo N) is drawn on position p (taken modulo K) of a
\* rotation window
DrawnOn(w, p) ==
    /\ N >= 1
    /\ K >= 1
    /\ DayMod(w % N)
    /\ d % K = p % K

\* every agent is drawn infinitely often on every position of a rotation
\* window
EveryAgentOnEveryPosition ==
    \A w \in 0 .. MaxFairN - 1 : \A p \in 0 .. MaxFairK - 1 : []<><<DrawnOn(w, p)>>_vars

\* C2 as stated: for every N >= 2 and K >= 1, a trial in which every agent
\* is drawn infinitely often on every position of a rotation window
\* eventually leaves the loop.
C2_FairTrialEnds ==
    EveryAgentOnEveryPosition => ((pc = "loop" /\ N >= 2 /\ K >= 1) ~> Ended)

\* C2 amended: for every N >= 2 and K >= 2, and for N = 2 with K = 1, a
\* trial whose draws are fair (FairDraws) eventually leaves the loop.
C2_FairTrialEndsWhenKAtLeastTwo ==
    (pc = "loop" /\ N >= 2 /\ (K >= 2 \/ N = 2)) ~> Ended

C2_Witness ==
    /\ pc = "done"
    /\ N >= 3
    /\ K >= 2
    /\ \E i, j \in Agents : i # j /\ seen[i][j] = 1

C11_ObserverRotates ==
    [][(pc = "loop" /\ d' = d + 1) =>
          cur_x' = IF d = 0 THEN 0
                   ELSE IF d % K = 0 THEN (cur_x + 1) % N
                   ELSE cur_x]_vars

\* the observer is agent 0 again after a full rotation
C11_Witness ==
    /\ pc = "loop"
    /\ N >= 3
    /\ K >= 2
    /\ d > K * N
    /\ cur_x = 0

\* C12: the second of two calls with the same provided seed (any integer, 0
\* included), the same N and the same K makes the draws of the first call
\* and ends as the first call ended: same days elapsed, same seen, same
\* coverage.
C12_SameSeedSameRun ==
    (call = 2 /\ seed # << >>) =>
        /\ \A k \in 1 .. Len(draws) :
              k <= Len(first.draws) /\ draws[k] = first.draws[k]
        /\ pc \in {"done", "AssertionError"} => Outcome = first

\* C16: the number of entries of seen that are set is at least N and at
\* most N*N in every state of a trial; the coverage returned is 100 times the
\* number of set entries of the final seen over N*N, between 0 and 100.
C16_Coverage ==
    LET SetEntries(m) == {p \in Agents \X Agents : m[p[1]][p[2]] = 1} IN
    /\ pc # "start" =>
          /\ Cardinality(SetEntries(seen)) >= N
          /\ Cardinality(SetEntries(seen)) <= N * N
    /\ pc = "done" =>
          /\ result.seen = seen
          /\ result.coverage = <<100 * Cardinality(SetEntries(seen)), N * N>>
          /\ result.coverage[1] >= 0
          /\ result.coverage[1] <= 100 * result.coverage[2]

\* a trial of four agents or more has returned with more than two entries
\* learned
C16_Witness ==
    /\ pc = "done"
    /\ N >= 4
    /\ result.coverage[1] > 100 * (N + 2)

C20_NothingLearnedWhenKIsOne ==
    (K = 1 /\ pc # "start") => (~light_on /\ seen = Eye(N))

\* every agent has been drawn, observers included, and nothing is learned
C20_Witness ==
    /\ K = 1
    /\ N >= 3
    /\ pc = "loop"
    /\ d >= 2 * N
    /\ VisitedSum = N
    /\ seen = Eye(N)

\* the agent drawn on the day last simulated
LastDrawn == draws[Len(draws)]

\* C17: one day changes seen in at most one entry. On a day on which the
\* observer x is drawn light_on becomes true at lines 51-52 (and stays true
\* after the day unless lines 55-56 reset it) and seen is unchanged; on a day
\* on which another agent is drawn with the light on exactly
\* seen[selected][x] is set; on any other day seen is unchanged. Row i of
\* seen changes only on a day on which i is drawn and is not the observer,
\* and only in the column of that day's observer.
C17_DayEffect ==
    [][(pc = "loop" /\ d' = d + 1) =>
          LET w == LastDrawn'
              xo == cur_x' IN
          /\ w = xo =>
                /\ light_visit'
                /\ light_on' = (d % K # K - 1)
                /\ seen' = seen
          /\ (w # xo /\ light_on) => seen' = [seen EXCEPT ![w][xo] = 1]
          /\ (w # xo /\ ~light_on) => seen' = seen
          /\ Cardinality({p \in Agents \X Agents :
                             seen'[p[1]][p[2]] # seen[p[1]][p[2]]}) <= 1
          /\ \A a \in Agents : seen'[a] # seen[a] =>
                /\ a = w /\ a # xo
                /\ \A b \in Agents \ {xo} : seen'[a][b] = seen[a][b]]_vars

\* an agent other than the observer has been drawn with the light on and
\* has recorded the observer
C17_Witness ==
    /\ pc = "loop"
    /\ d >= 1
    /\ LastDrawn # cur_x
    /\ seen[LastDrawn][cur_x] = 1
    /\ \E k \in 1 .. Len(draws) - 1 : draws[k] = cur_x

\* C18: for i # j, seen[i][j] is set only if i and j have both been drawn;
\* the light is on at the start of a day only if the observer of that day
\* was drawn on an earlier day of the same rotation window.
C18_KnowledgeSound ==
    /\ pc # "start" =>
          \A a, b \in Agents :
              (a # b /\ seen[a][b] = 1) =>
                  (visited_warden[a] = 1 /\ visited_warden[b] = 1)
    /\ (pc = "loop" /\ light_on) =>
          \E day \in (d - (d % K)) .. (d - 1) : draws[day + 1] = Observer(d)

\* the light is still on after an agent has read it
C18_Witness ==
    /\ pc = "loop"
    /\ light_on
    /\ d % K = 2
    /\ \E a, b \in Agents : a # b /\ seen[a][b] = 1

\* ---------------------------------------------------------------------
\* Properties of vary_parameters

\* C13: once a trial of a sweep has failed its assertion, no later trial is
\* run, no cell of the table is written and the table is not written to
\* res.mat again.
C13_FailedTrialAbortsSweep ==
    [][(vp # "none" /\ pc = "AssertionError") =>
          /\ pc' = "AssertionError"
          /\ vp' = "AssertionError"
          /\ trials' = trials
          /\ saves' = saves
          /\ sweep_i' = sweep_i
          /\ sweep_t' = sweep_t]_vars

\* the second trial of a batch has failed and another K was to follow
C13_Witness ==
    /\ vp = "AssertionError"
    /\ sweep_t >= 1
    /\ sweep_i + 1 < Len(Ks)
    /\ trials[0][sweep_i][1] > 0

\* the cell of trial tt for Ks[ii + 1] has been written
Written(table, tt, ii) == table[tt][ii] # <<0, 365>>

\* the cells written are those of the first full columns and of the first
\* rows rows of column full
FilledUpTo(table, full, rows) ==
    \A tt \in 0 .. NTrials - 1 : \A ii \in 0 .. Len(Ks) - 1 :
        Written(table, tt, ii) <=> (ii < full \/ (ii = full /\ tt < rows))

\* C14: the trials are run for the Ks in order, NTrials for each K, each
\* from a fresh state; a cell is written once, by the trial it belongs to;
\* the table is written to res.mat once per K, when the batch of that K is
\* complete.
C14_SweepOrder ==
    [][vp # "none" =>
          /\ (pc' = "loop" /\ pc = "start") =>
                /\ K' = Ks[sweep_i + 1]
                /\ sweep_t < NTrials
                /\ seen' = Eye(N) /\ VisitedSum' = 0 /\ ~light_on' /\ d' = 0
          /\ (vp # "entry" /\ trials' # trials) =>
                /\ pc = "done"
                /\ ~Written(trials, sweep_t, sweep_i)
                /\ trials' = [trials EXCEPT ![sweep_t][sweep_i] = <<result.d, 365>>]
                /\ sweep_t' = sweep_t + 1 /\ sweep_i' = sweep_i
          /\ saves' # saves =>
                /\ sweep_t = NTrials
                /\ saves' = Append(saves, [Ks |-> Ks, trials |-> trials])
                /\ sweep_i' = sweep_i + 1
          /\ vp' # "entry" =>
                /\ FilledUpTo(trials', sweep_i', sweep_t')
                /\ Len(saves') = sweep_i'
                /\ \A k \in 1 .. Len(saves') : FilledUpTo(saves'[k].trials, k, 0)
          /\ vp' = "finished" => sweep_i' = Len(Ks)]_vars

C14_Witness ==
    /\ vp = "finished"
    /\ NTrials = 2
    /\ Len(Ks) = 2
    /\ Len(saves) = 2
    /\ \A tt \in 0 .. 1 : \A ii \in 0 .. 1 : Written(trials, tt, ii)

\* C15: when a sweep has completed the table has NTrials rows of len(Ks)
\* cells and every cell is strictly positive; a trial that returns has
\* simulated at least one day.
C15_TableStrictlyPositive ==
    /\ (vp # "none" /\ pc = "done") => result.d >= 1
    /\ vp = "finished" =>
          /\ DOMAIN trials = 0 .. NTrials - 1
          /\ \A tt \in DOMAIN trials :
                /\ DOMAIN trials[tt] = 0 .. Len(Ks) - 1
                /\ \A ii \in DOMAIN trials[tt] :
                      trials[tt][ii][1] > 0 /\ trials[tt][ii][2] > 0

C15_Witness ==
    /\ vp = "finished"
    /\ NTrials = 1
    /\ Len(Ks) = 2
    /\ trials[0][0][1] > 0
    /\ trials[0][1][1] > 0

====
